---- MODULE Spec2Model ----
(***************************************************************************)
(* A model of src/agent.py: one LiveKit job (my_agent) that classifies its *)
(* room as a phone call or a web session, binds a persona and a tool list, *)
(* and the two function tools the conversational engine may invoke:        *)
(* hangup_call and get_call_debrief.                                       *)
(*                                                                         *)
(* The job runs on one asyncio event loop.  Code between two awaits is one *)
(* atomic action; an await is a point where other actions interleave.  The *)
(* requests.get / requests.post calls are synchronous: they do not yield   *)
(* the loop.                                                               *)
(***************************************************************************)
EXTENDS Integers, Sequences, FiniteSets, TLC

VARIABLES
    room_name,            \* ctx.room.name
    remote_participants,  \* ctx.room.remote_participants: identity -> kind
    departed,             \* participants that have disconnected, and whether
                          \* the session was running when they did
    pc,                   \* position of the my_agent coroutine
    is_phone,             \* the local is_phone of my_agent
    agent,                \* the Assistant passed to session.start
    avatar_started,       \* bey.AvatarSession.start has been awaited
    greetings,            \* instructions of the opening generate_reply calls
    history,              \* session.history items
    speech_queue,         \* replies scheduled by generate_reply, not yet played
    clock,                \* wall clock read by datetime.now
    hangups,              \* one record per hangup_call invocation
    delete_room_calls,    \* DeleteRoomRequest's sent, in order
    room_deleted,         \* some delete_room has succeeded
    posts,                \* POST attempts to N8N_TRANSCRIPT_WEBHOOK_URL
    post_log,             \* the last line logged by hangup_call's POST block
    job_context,          \* what get_job_context() returns in this process
    debriefs,             \* one record per get_call_debrief invocation
    loop_blocked          \* the event loop is inside a synchronous requests.get

vars == << room_name, remote_participants, departed, pc, is_phone, agent,
           avatar_started, greetings, history, speech_queue, clock, hangups,
           delete_room_calls, room_deleted, posts, post_log, job_context,
           debriefs, loop_blocked >>

----------------------------------------------------------------------------
(* Bounds *)

MaxUtterances == 1   \* caller utterances recorded per session
MaxHangups    == 2   \* hangup_call invocations per session
MaxDebriefs   == 2   \* get_call_debrief invocations per session
MaxClock      == 1   \* clock ticks per session

----------------------------------------------------------------------------
(* Room names and participants the job may be dispatched with *)

CallPrefix == "call-"

RoomNames == { "call-+1555", "call-1555", "+call-", "web" }

Identities == { "sip_caller", "browser" }

KIND_SIP      == "PARTICIPANT_KIND_SIP"
KIND_STANDARD == "PARTICIPANT_KIND_STANDARD"
Kinds         == { KIND_SIP, KIND_STANDARD }

\* participant.kind of the participant with the given identity
KindOf(id) == IF id = "sip_caller" THEN KIND_SIP ELSE KIND_STANDARD

\* str.startswith
StartsWith(s, prefix) ==
    /\ Len(s) >= Len(prefix)
    /\ SubSeq(s, 1, Len(prefix)) = prefix

\* the `in` operator on a string and a one-character string
Contains(s, ch) == \E i \in 1..Len(s) : SubSeq(s, i, i) = ch

\* agent.py line 122
NameIsPhone(name) == StartsWith(name, CallPrefix) /\ Contains(name, "+")

\* agent.py lines 125-129: the loop over remote_participants.values()
AnySipParticipant(participants) ==
    \E id \in DOMAIN participants : participants[id] = KIND_SIP

\* a classifier that only looks at the room name
DetectPhoneNameOnly(name, participants) == NameIsPhone(name)

\* agent.py lines 122-129
DetectPhone(name, participants) ==
    IF NameIsPhone(name) THEN TRUE
    ELSE IF AnySipParticipant(participants) THEN TRUE
    ELSE FALSE

----------------------------------------------------------------------------
(* Assistant.__init__ *)

TOOL_HANGUP  == "hangup_call"
TOOL_DEBRIEF == "get_call_debrief"

GATEKEEPER     == "gatekeeper"      \* the phone-mode instructions
CHIEF_OF_STAFF == "chief_of_staff"  \* the web-mode instructions

NoAgent == [ instructions |-> "none", tools |-> {} ]

\* an Assistant that exposes both tools whatever the origin
AssistantAllTools(phone) ==
    IF phone
    THEN [ instructions |-> GATEKEEPER,
           tools |-> { TOOL_HANGUP, TOOL_DEBRIEF } ]
    ELSE [ instructions |-> CHIEF_OF_STAFF,
           tools |-> { TOOL_HANGUP, TOOL_DEBRIEF } ]

Assistant(phone) ==
    IF phone
    THEN [ instructions |-> GATEKEEPER,     tools |-> { TOOL_HANGUP } ]
    ELSE [ instructions |-> CHIEF_OF_STAFF, tools |-> { TOOL_DEBRIEF } ]

----------------------------------------------------------------------------
(* Instructions handed to generate_reply *)

SPAM_MESSAGE   == "spam_rejection"
POLITE_MESSAGE == "polite_goodbye"
PHONE_GREETING == "phone_greeting"
WEB_GREETING   == "web_greeting"

\* agent.py lines 57-60
ClosingMessage(is_spam) == IF is_spam THEN SPAM_MESSAGE ELSE POLITE_MESSAGE

\* the greetings with the branches exchanged
GreetingSwapped(phone) == IF phone THEN WEB_GREETING ELSE PHONE_GREETING

\* agent.py lines 158-165
Greeting(phone) == IF phone THEN PHONE_GREETING ELSE WEB_GREETING

USER_ITEM == "user:hello"

\* the history item the engine records when it plays a scheduled reply
ReplyItem(instructions) == "assistant:" \o instructions

----------------------------------------------------------------------------
(* json.dumps of a list: the items between brackets, separated by commas *)

RECURSIVE JoinItems(_)
JoinItems(items) ==
    IF Len(items) = 0 THEN ""
    ELSE IF Len(items) = 1 THEN items[1]
    ELSE items[1] \o ", " \o JoinItems(Tail(items))

JsonDumps(items) == "[" \o JoinItems(items) \o "]"

\* datetime.now(ZoneInfo("America/Los_Angeles")).isoformat()
LA_OFFSET == "America/Los_Angeles"
IsoFormatNow(now) == << now, LA_OFFSET >>

----------------------------------------------------------------------------
(* Outcomes of the external calls *)

HTTP_OK == 200

\* requests.post(N8N_TRANSCRIPT_WEBHOOK_URL): a response, or an exception
PostOutcomes ==
    { [ raised |-> TRUE, status |-> 0 ] }
    \cup { [ raised |-> FALSE, status |-> s ] : s \in { 200, 500 } }

\* requests.get(N8N_MEMORY_WEBHOOK_URL): a response with a body, or an
\* exception (connection error, timeout)
MemoryBodies == { "", "Jane Doe: called about invoice", "{not json" }

GetOutcomes ==
    { [ raised |-> TRUE, status |-> 0, text |-> "" ] }
    \cup { [ raised |-> FALSE, status |-> s, text |-> b ] :
              s \in { 200, 503 }, b \in MemoryBodies }

\* delete_room: TRUE when the server acknowledges, FALSE when the call raises
DeleteOutcomes == BOOLEAN

----------------------------------------------------------------------------
(* State after the job has been dispatched, before my_agent runs *)

Init ==
    /\ room_name \in RoomNames
    /\ remote_participants = << >>
    /\ departed = {}
    /\ pc = "connect"
    /\ is_phone = FALSE
    /\ agent = NoAgent
    /\ avatar_started = FALSE
    /\ greetings = << >>
    /\ history = << >>
    /\ speech_queue = << >>
    /\ clock = 0
    /\ hangups = << >>
    /\ delete_room_calls = << >>
    /\ room_deleted = FALSE
    /\ posts = << >>
    /\ post_log = "none"
    /\ job_context \in { "JobContext", "None" }
    /\ debriefs = << >>
    /\ loop_blocked = FALSE

\* my_agent has evaluated lines 122-129
Classified == pc \notin { "connect", "classify" }

\* session.start has completed: the engine runs and may invoke tools
SessionStarted == pc \in { "await_greeting", "done" }

----------------------------------------------------------------------------
(* my_agent *)

\* line 118: await ctx.connect(...) completes; the room holds whoever was
\* already there
Connect ==
    /\ pc = "connect"
    /\ ~loop_blocked
    /\ \E present \in SUBSET Identities :
         remote_participants' = [ id \in present |-> KindOf(id) ]
    /\ pc' = "classify"
    /\ UNCHANGED << room_name, departed, is_phone, agent, avatar_started,
                    greetings, history, speech_queue, clock, hangups,
                    delete_room_calls, room_deleted, posts, post_log, job_context, debriefs,
                    loop_blocked >>

\* lines 122-150: is_phone is computed, the AgentSession is built, and the
\* coroutine suspends at avatar.start (web) or at session.start (phone),
\* whose argument Assistant(is_phone) is built before the await
Classify ==
    /\ pc = "classify"
    /\ ~loop_blocked
    /\ is_phone' = DetectPhone(room_name, remote_participants)
    /\ IF is_phone'
       THEN /\ agent' = Assistant(is_phone')
            /\ pc' = "await_session_start"
       ELSE /\ agent' = agent
            /\ pc' = "await_avatar"
    /\ UNCHANGED << room_name, remote_participants, departed, avatar_started,
                    greetings, history, speech_queue, clock, hangups,
                    delete_room_calls, room_deleted, posts, post_log, job_context, debriefs,
                    loop_blocked >>

\* lines 145-150: avatar.start returns; Assistant(is_phone) is built and
\* session.start is awaited
AvatarStarted ==
    /\ pc = "await_avatar"
    /\ ~loop_blocked
    /\ avatar_started' = TRUE
    /\ agent' = Assistant(is_phone)
    /\ pc' = "await_session_start"
    /\ UNCHANGED << room_name, remote_participants, departed, is_phone,
                    greetings, history, speech_queue, clock, hangups,
                    delete_room_calls, room_deleted, posts, post_log, job_context, debriefs,
                    loop_blocked >>

\* lines 148-165: session.start returns; the opening generate_reply is
\* called and awaited
SessionStart ==
    /\ pc = "await_session_start"
    /\ ~loop_blocked
    /\ greetings' = Append(greetings, Greeting(is_phone))
    /\ speech_queue' = Append(speech_queue, Greeting(is_phone))
    /\ pc' = "await_greeting"
    /\ UNCHANGED << room_name, remote_participants, departed, is_phone, agent,
                    avatar_started, history, clock, hangups,
                    delete_room_calls, room_deleted, posts, post_log, job_context, debriefs,
                    loop_blocked >>

\* lines 159-165: the awaited opening reply has been played; my_agent returns
GreetingDone ==
    /\ pc = "await_greeting"
    /\ ~loop_blocked
    /\ \A i \in 1..Len(speech_queue) : speech_queue[i] # Greeting(is_phone)
    /\ pc' = "done"
    /\ UNCHANGED << room_name, remote_participants, departed, is_phone, agent,
                    avatar_started, greetings, history, speech_queue, clock,
                    hangups, delete_room_calls, room_deleted, posts, post_log, job_context, debriefs,
                    loop_blocked >>

----------------------------------------------------------------------------
(* The room and the engine, as the code observes them *)

\* a join handler that runs the phone detection again
ParticipantConnectedReclassify(id) ==
    /\ pc # "connect"
    /\ ~loop_blocked
    /\ ~room_deleted
    /\ id \notin DOMAIN remote_participants
    /\ id \notin { d.identity : d \in departed }
    /\ remote_participants' =
          [ x \in (DOMAIN remote_participants) \cup { id } |->
               IF x = id THEN KindOf(id) ELSE remote_participants[x] ]
    /\ is_phone' = IF Classified
                   THEN DetectPhone(room_name, remote_participants')
                   ELSE is_phone
    /\ UNCHANGED << room_name, departed, pc, agent, avatar_started,
                    greetings, history, speech_queue, clock, hangups,
                    delete_room_calls, room_deleted, posts, post_log,
                    job_context, debriefs, loop_blocked >>

\* a participant joins the room after the job connected; agent.py reads
\* remote_participants at line 126 only
ParticipantConnected(id) ==
    /\ pc # "connect"
    /\ ~loop_blocked
    /\ ~room_deleted
    /\ id \notin DOMAIN remote_participants
    /\ id \notin { d.identity : d \in departed }
    /\ remote_participants' =
          [ x \in (DOMAIN remote_participants) \cup { id } |->
               IF x = id THEN KindOf(id) ELSE remote_participants[x] ]
    /\ UNCHANGED << room_name, departed, pc, is_phone, agent, avatar_started,
                    greetings, history, speech_queue, clock, hangups,
                    delete_room_calls, room_deleted, posts, post_log, job_context, debriefs,
                    loop_blocked >>

\* a participant leaves the room; agent.py registers no handler for it
ParticipantDisconnected(id) ==
    /\ pc # "connect"
    /\ ~loop_blocked
    /\ id \in DOMAIN remote_participants
    /\ remote_participants' =
          [ x \in (DOMAIN remote_participants) \ { id } |->
               remote_participants[x] ]
    /\ departed' = departed \cup
          { [ identity |-> id, during_session |-> SessionStarted ] }
    /\ UNCHANGED << room_name, pc, is_phone, agent, avatar_started, greetings,
                    history, speech_queue, clock, hangups, delete_room_calls,
                    room_deleted, posts, post_log, job_context, debriefs, loop_blocked >>

UserItems(h) == { i \in 1..Len(h) : h[i] = USER_ITEM }

\* the engine records an utterance of the caller in session.history
UserUtterance ==
    /\ SessionStarted
    /\ ~loop_blocked
    /\ Cardinality(UserItems(history)) < MaxUtterances
    /\ history' = Append(history, USER_ITEM)
    /\ UNCHANGED << room_name, remote_participants, departed, pc, is_phone,
                    agent, avatar_started, greetings, speech_queue, clock,
                    hangups, delete_room_calls, room_deleted, posts, post_log, job_context, debriefs,
                    loop_blocked >>

\* the engine plays a reply scheduled by generate_reply and records it
PlaySpeech ==
    /\ speech_queue # << >>
    /\ ~loop_blocked
    /\ history' = Append(history, ReplyItem(Head(speech_queue)))
    /\ speech_queue' = Tail(speech_queue)
    /\ UNCHANGED << room_name, remote_participants, departed, pc, is_phone,
                    agent, avatar_started, greetings, clock, hangups,
                    delete_room_calls, room_deleted, posts, post_log, job_context, debriefs,
                    loop_blocked >>

\* time passes
Tick ==
    /\ clock < MaxClock
    /\ clock' = clock + 1
    /\ UNCHANGED << room_name, remote_participants, departed, pc, is_phone,
                    agent, avatar_started, greetings, history, speech_queue,
                    hangups, delete_room_calls, room_deleted, posts, post_log, job_context, debriefs,
                    loop_blocked >>

----------------------------------------------------------------------------
(* hangup_call *)

\* a payload serialised from the live history when the POST is sent, as
\* send_transcript_to_n8n builds it
TranscriptPayloadLive(h) ==
    [ transcript |-> JsonDumps(history), timestamp |-> h.timestamp ]

\* a payload stamped when the POST is sent, as send_transcript_to_n8n
\* stamps it
TranscriptPayloadStampedAtSend(h) ==
    [ transcript |-> h.transcript_data, timestamp |-> IsoFormatNow(clock) ]

\* lines 78-81: the payload is built from the captured locals
TranscriptPayload(h) ==
    [ transcript |-> h.transcript_data, timestamp |-> h.timestamp ]

\* line 82: one POST attempt, by invocation i; items_at_post is the length
\* of session.history, and sent_at the time, when the request is sent
PostTranscript(i, h) ==
    [ by |-> i, payload |-> TranscriptPayload(h),
      items_at_post |-> Len(history), sent_at |-> clock ]

\* lines 83-85: the status is logged; an exception is caught and logged
PostLog(outcome) ==
    IF outcome.raised THEN "Failed to send transcript"
    ELSE IF outcome.status = HTTP_OK THEN "Transcript sent to n8n. Status: 200"
    ELSE "Transcript sent to n8n. Status: 500"

\* the locals when the transcript is captured before generate_reply
HangupLocalsCaptureFirst(is_spam) ==
    [ is_spam         |-> is_spam,
      state           |-> "running",
      history_at_call |-> history,
      message         |-> ClosingMessage(is_spam),
      transcript_data |-> JsonDumps(history),
      timestamp       |-> IsoFormatNow(clock),
      captured_at     |-> clock,
      steps           |-> << "disallow_interruptions", "capture_transcript",
                             "capture_timestamp", "generate_reply" >>,
      returned        |-> "none" ]

\* lines 53-67: the locals of an invocation when it reaches get_job_context
HangupLocals(is_spam) ==
    [ is_spam         |-> is_spam,
      state           |-> "running",
      history_at_call |-> history,
      message         |-> ClosingMessage(is_spam),
      transcript_data |-> JsonDumps(history),
      timestamp       |-> IsoFormatNow(clock),
      captured_at     |-> clock,
      steps           |-> << "disallow_interruptions", "generate_reply",
                             "capture_transcript", "capture_timestamp" >>,
      returned        |-> "none" ]

\* the record when the POST is made outside the try block and fails
HangupReturnedPostRaises(h) ==
    [ h EXCEPT !.state = "raised",
               !.steps = h.steps \o << "post", "post_raised" >> ]

\* lines 76-87 for invocation record h: the record after `return ""`
HangupReturned(h) ==
    [ h EXCEPT !.state = "returned",
               !.steps = h.steps \o << "post", "return" >>,
               !.returned = "" ]

\* the invocation when a missing job context ends it before the POST
HangupCallNoContextReturnsEarly(is_spam) ==
    /\ SessionStarted
    /\ TOOL_HANGUP \in agent.tools
    /\ ~loop_blocked
    /\ Len(hangups) < MaxHangups
    /\ LET h == HangupLocals(is_spam)
       IN  /\ speech_queue' = Append(speech_queue, h.message)
           /\ IF job_context # "None"
              THEN /\ delete_room_calls' = Append(delete_room_calls, room_name)
                   /\ hangups' = Append(hangups,
                         [ h EXCEPT !.state = "await_delete_room",
                                    !.steps = h.steps \o << "delete_room" >> ])
              ELSE /\ delete_room_calls' = delete_room_calls
                   /\ hangups' = Append(hangups,
                         [ h EXCEPT !.state = "returned",
                                    !.steps = h.steps \o << "return" >>,
                                    !.returned = "" ])
           /\ UNCHANGED << posts, post_log >>
    /\ UNCHANGED << room_name, remote_participants, departed, pc, is_phone,
                    agent, avatar_started, greetings, history, clock,
                    room_deleted, job_context, debriefs, loop_blocked >>

\* the invocation when the transcript is posted before delete_room is awaited
HangupCallPostFirst(is_spam) ==
    /\ SessionStarted
    /\ TOOL_HANGUP \in agent.tools
    /\ ~loop_blocked
    /\ Len(hangups) < MaxHangups
    /\ LET h == HangupLocals(is_spam)
           i == Len(hangups) + 1
       IN  /\ speech_queue' = Append(speech_queue, h.message)
           /\ posts' = Append(posts, PostTranscript(i, h))
           /\ \E outcome \in PostOutcomes : post_log' = PostLog(outcome)
           /\ IF job_context # "None"
              THEN /\ delete_room_calls' = Append(delete_room_calls, room_name)
                   /\ hangups' = Append(hangups,
                         [ h EXCEPT !.state = "await_delete_room",
                                    !.steps = h.steps \o << "post", "delete_room" >> ])
              ELSE /\ delete_room_calls' = delete_room_calls
                   /\ hangups' = Append(hangups, HangupReturned(h))
    /\ UNCHANGED << room_name, remote_participants, departed, pc, is_phone,
                    agent, avatar_started, greetings, history, clock,
                    room_deleted, job_context, debriefs, loop_blocked >>

\* lines 51-73, and lines 76-87 when there is no job context: the engine
\* invokes the tool; the code runs to its first await
HangupCall(is_spam) ==
    /\ SessionStarted
    /\ TOOL_HANGUP \in agent.tools
    /\ ~loop_blocked
    /\ Len(hangups) < MaxHangups
    /\ LET h == HangupLocals(is_spam)
           i == Len(hangups) + 1
       IN  /\ speech_queue' = Append(speech_queue, h.message)
           /\ IF job_context # "None"
              THEN /\ delete_room_calls' = Append(delete_room_calls, room_name)
                   /\ hangups' = Append(hangups,
                         [ h EXCEPT !.state = "await_delete_room",
                                    !.steps = h.steps \o << "delete_room" >> ])
                   /\ UNCHANGED << posts, post_log >>
              ELSE /\ delete_room_calls' = delete_room_calls
                   /\ hangups' = Append(hangups, HangupReturned(h))
                   /\ posts' = Append(posts, PostTranscript(i, h))
                   /\ \E outcome \in PostOutcomes :
                         post_log' = PostLog(outcome)
    /\ UNCHANGED << room_name, remote_participants, departed, pc, is_phone,
                    agent, avatar_started, greetings, history, clock,
                    room_deleted, job_context, debriefs, loop_blocked >>

\* lines 73-87: the awaited delete_room completes.  When it raises, the
\* exception leaves hangup_call; otherwise the transcript is posted
HangupResume(i, deleted) ==
    /\ i \in 1..Len(hangups)
    /\ hangups[i].state = "await_delete_room"
    /\ ~loop_blocked
    /\ IF deleted
       THEN LET h == [ hangups[i] EXCEPT
                         !.steps = @ \o << "delete_room_returned" >> ]
            IN  /\ room_deleted' = TRUE
                /\ hangups' = [ hangups EXCEPT ![i] = HangupReturned(h) ]
                /\ posts' = Append(posts, PostTranscript(i, h))
                /\ \E outcome \in PostOutcomes :
                      post_log' = PostLog(outcome)
       ELSE /\ room_deleted' = room_deleted
            /\ hangups' = [ hangups EXCEPT
                              ![i].state = "raised",
                              ![i].steps = @ \o << "delete_room_raised" >> ]
            /\ UNCHANGED << posts, post_log >>
    /\ UNCHANGED << room_name, remote_participants, departed, pc, is_phone,
                    agent, avatar_started, greetings, history, speech_queue,
                    clock, delete_room_calls, job_context, debriefs,
                    loop_blocked >>

----------------------------------------------------------------------------
(* get_call_debrief *)

\* the body whatever the status
MemoryOfAnyStatus(response) == response.text

\* line 46
MemoryOf(response) ==
    IF response.status = HTTP_OK THEN response.text ELSE ""

\* the invocation when the request is issued before interruptions are
\* disallowed
DebriefCallGetFirst ==
    /\ SessionStarted
    /\ TOOL_DEBRIEF \in agent.tools
    /\ ~loop_blocked
    /\ Len(debriefs) < MaxDebriefs
    /\ debriefs' = Append(debriefs,
          [ state    |-> "in_get",
            steps    |-> << "get", "disallow_interruptions" >>,
            response |-> [ raised |-> FALSE, status |-> 0, text |-> "" ],
            returned |-> "" ])
    /\ loop_blocked' = TRUE
    /\ UNCHANGED << room_name, remote_participants, departed, pc, is_phone,
                    agent, avatar_started, greetings, history, speech_queue,
                    clock, hangups, delete_room_calls, room_deleted, posts,
                    post_log, job_context >>

\* lines 43-45: the engine invokes the tool; interruptions are disallowed
\* and the synchronous requests.get is entered
DebriefCall ==
    /\ SessionStarted
    /\ TOOL_DEBRIEF \in agent.tools
    /\ ~loop_blocked
    /\ Len(debriefs) < MaxDebriefs
    /\ debriefs' = Append(debriefs,
          [ state    |-> "in_get",
            steps    |-> << "disallow_interruptions", "get" >>,
            response |-> [ raised |-> FALSE, status |-> 0, text |-> "" ],
            returned |-> "" ])
    /\ loop_blocked' = TRUE
    /\ UNCHANGED << room_name, remote_participants, departed, pc, is_phone,
                    agent, avatar_started, greetings, history, speech_queue,
                    clock, hangups, delete_room_calls, room_deleted, posts,
                    post_log, job_context >>

\* lines 45-48: requests.get returns a response or raises; nothing in
\* get_call_debrief catches the exception
DebriefFinish(outcome) ==
    /\ loop_blocked
    /\ Len(debriefs) > 0
    /\ debriefs[Len(debriefs)].state = "in_get"
    /\ debriefs' = [ debriefs EXCEPT ![Len(debriefs)] =
          IF outcome.raised
          THEN [ @ EXCEPT !.state = "raised", !.response = outcome ]
          ELSE [ @ EXCEPT !.state = "returned", !.response = outcome,
                          !.returned = MemoryOf(outcome),
                          !.steps = @ \o << "return" >> ] ]
    /\ loop_blocked' = FALSE
    /\ UNCHANGED << room_name, remote_participants, departed, pc, is_phone,
                    agent, avatar_started, greetings, history, speech_queue,
                    clock, hangups, delete_room_calls, room_deleted, posts,
                    post_log, job_context >>

----------------------------------------------------------------------------

Next ==
    \/ Connect
    \/ Classify
    \/ AvatarStarted
    \/ SessionStart
    \/ GreetingDone
    \/ \E id \in Identities : ParticipantConnected(id)
    \/ \E id \in Identities : ParticipantDisconnected(id)
    \/ UserUtterance
    \/ PlaySpeech
    \/ Tick
    \/ \E is_spam \in BOOLEAN : HangupCall(is_spam)
    \/ \E i \in 1..MaxHangups, deleted \in DeleteOutcomes :
          HangupResume(i, deleted)
    \/ DebriefCall
    \/ \E outcome \in GetOutcomes : DebriefFinish(outcome)

Spec == Init /\ [][Next]_vars

----------------------------------------------------------------------------
(* Scenarios: each restricts the job's inputs and the events around it to   *)
(* those a group of properties is about.  Every behaviour of a scenario is  *)
(* a behaviour of Spec.                                                     *)

\* Startup and tool exposure: any room name, participants joining and
\* leaving, the engine invoking whichever tools the agent exposes
NextStartup ==
    \/ Connect
    \/ Classify
    \/ AvatarStarted
    \/ SessionStart
    \/ GreetingDone
    \/ PlaySpeech
    \/ \E id \in Identities : ParticipantConnected(id)
    \/ \E id \in Identities : ParticipantDisconnected(id)
    \/ \E is_spam \in BOOLEAN : HangupCall(is_spam)
    \/ DebriefCall
    \/ \E outcome \in GetOutcomes : DebriefFinish(outcome)

SpecStartup == Init /\ [][NextStartup]_vars

\* A phone call: the room is named after the caller's number, the SIP
\* caller is in it when the job connects and stays while the engine hangs up
InitCall == Init /\ room_name = "call-+1555"

ConnectCall == Connect /\ DOMAIN remote_participants' = { "sip_caller" }

NextCall ==
    \/ ConnectCall
    \/ Classify
    \/ SessionStart
    \/ GreetingDone
    \/ PlaySpeech
    \/ \E is_spam \in BOOLEAN : HangupCall(is_spam)
    \/ \E i \in 1..MaxHangups, deleted \in DeleteOutcomes :
          HangupResume(i, deleted)

SpecCall == InitCall /\ [][NextCall]_vars

\* Scenario: the same call with a job context, while time passes
InitClock == InitCall /\ job_context = "JobContext"

NextClock ==
    \/ ConnectCall
    \/ Classify
    \/ SessionStart
    \/ Tick
    \/ \E is_spam \in BOOLEAN : HangupCall(is_spam)
    \/ \E i \in 1..MaxHangups, deleted \in DeleteOutcomes :
          HangupResume(i, deleted)

SpecClock == InitClock /\ [][NextClock]_vars

----------------------------------------------------------------------------
(* Properties *)

HangupFinished(i) == hangups[i].state \in { "returned", "raised" }

AllHangupsFinished == \A i \in 1..Len(hangups) : HangupFinished(i)

\* termination requests issued so far: hangup_call invocations, and the
\* transport-level disconnect if a participant has left
TerminationRequests ==
    Len(hangups) + (IF departed # {} THEN 1 ELSE 0)

\* C1: when two termination requests are issued for the session, no more
\* than one delete_room call and no more than one transcript POST occur:
\* the second request is a no-op.
C1_SecondRequestIsNoOp ==
    TerminationRequests >= 2 =>
        /\ Len(delete_room_calls) <= 1
        /\ Len(posts) <= 1

\* the session was ended by hangup_call: an invocation returned and none
\* is still in flight
EndedByHangup ==
    /\ AllHangupsFinished
    /\ \E i \in 1..Len(hangups) : hangups[i].state = "returned"

\* the session was ended by the transport: every participant has left a
\* started session and the engine never invoked hangup_call.  Only
\* HangupCall and HangupResume change posts, so nothing is delivered from
\* such a state unless the engine invokes hangup_call after all
EndedByDisconnect ==
    /\ SessionStarted
    /\ \E d \in departed : d.during_session
    /\ DOMAIN remote_participants = {}
    /\ hangups = << >>

\* C2: a session that has ended, by hangup_call or by the caller
\* disconnecting without hangup_call, has had exactly one transcript
\* delivery attempt.
C2_DeliveredOnceWhicheverTrigger ==
    (EndedByHangup \/ EndedByDisconnect) => Len(posts) = 1

\* C3: once the agent is bound, a Phone session has the gatekeeper persona
\* with exactly {hangup_call} and has never run get_call_debrief; a Web
\* session has the chief-of-staff persona with exactly {get_call_debrief}
\* and has never run hangup_call.
C3_ToolSetFollowsOrigin ==
    agent # NoAgent =>
        IF is_phone
        THEN /\ agent.instructions = GATEKEEPER
             /\ agent.tools = { TOOL_HANGUP }
             /\ debriefs = << >>
        ELSE /\ agent.instructions = CHIEF_OF_STAFF
             /\ agent.tools = { TOOL_DEBRIEF }
             /\ hangups = << >>
             /\ delete_room_calls = << >>

C3_PhoneSessionHangsUp ==
    /\ is_phone
    /\ agent.tools = { TOOL_HANGUP }
    /\ Len(hangups) > 0

\* the reserved telephone pattern: the name begins with call- and a + of
\* a phone number follows the prefix
MatchesCallPattern(name) ==
    /\ Len(name) > 5
    /\ SubSeq(name, 1, 5) = "call-"
    /\ \E i \in 6..Len(name) : SubSeq(name, i, i) = "+"

SipConnected == \E id \in DOMAIN remote_participants : KindOf(id) = KIND_SIP

\* C4: the classification step yields Phone if the room name matches the
\* telephone pattern, otherwise Phone if a connected participant is SIP,
\* otherwise Web, for every room name and set of connected participants.
C4_FirstMatchWins ==
    [][ (pc = "classify" /\ pc' # "classify") =>
          is_phone' = ( IF MatchesCallPattern(room_name) THEN TRUE
                        ELSE IF SipConnected THEN TRUE
                        ELSE FALSE ) ]_vars

C4_PhoneBySipParticipant ==
    /\ Classified
    /\ is_phone
    /\ room_name = "call-1555"

\* C5: once the origin is decided it never changes, and neither does the
\* agent once bound, whatever participants join afterwards.
C5_OriginDecidedOnce ==
    [][ /\ Classified => is_phone' = is_phone
        /\ agent # NoAgent => agent' = agent ]_vars

C5_SipJoinedWebSession ==
    /\ Classified
    /\ ~is_phone
    /\ "sip_caller" \in DOMAIN remote_participants
    /\ agent = Assistant(FALSE)

\* C6: every POSTed transcript is the serialisation of the history as it
\* was when that hangup_call invocation began; items appended afterwards
\* are not in it.
C6_PayloadIsSnapshot ==
    \A k \in 1..Len(posts) :
        posts[k].payload.transcript
            = JsonDumps(hangups[posts[k].by].history_at_call)

C6_HistoryGrewBeforePost ==
    \E k \in 1..Len(posts) :
        /\ posts[k].items_at_post > Len(hangups[posts[k].by].history_at_call)
        /\ hangups[posts[k].by].history_at_call # << >>

\* C7: get_call_debrief never raises: no invocation ends with an exception
\* leaving the function.
C7_DebriefNeverRaises ==
    \A i \in 1..Len(debriefs) : debriefs[i].state # "raised"

\* C8: an invocation of get_call_debrief that returns gives the response
\* body unmodified when the status is 200 and the empty string otherwise.
C8_BodyOn200ElseEmpty ==
    \A i \in 1..Len(debriefs) :
        debriefs[i].state = "returned" =>
            /\ debriefs[i].response.status = 200
                  => debriefs[i].returned = debriefs[i].response.text
            /\ debriefs[i].response.status # 200
                  => debriefs[i].returned = ""

C8_BodyReturned ==
    \E i \in 1..Len(debriefs) :
        /\ debriefs[i].state = "returned"
        /\ debriefs[i].response.status = 200
        /\ debriefs[i].returned = "Jane Doe: called about invoice"

\* C9: in a job with a job context, every hangup_call invocation that has
\* finished scheduled the instruction of its reason, had room teardown
\* invoked, and made a POST carrying its captured transcript and timestamp.
C9_WholeSequenceCarriedOut ==
    job_context # "None" =>
        \A i \in 1..Len(hangups) :
            HangupFinished(i) =>
                /\ hangups[i].message =
                      (IF hangups[i].is_spam THEN SPAM_MESSAGE
                                             ELSE POLITE_MESSAGE)
                /\ Len(delete_room_calls) >= i
                /\ \E k \in 1..Len(posts) :
                      /\ posts[k].by = i
                      /\ posts[k].payload.transcript = hangups[i].transcript_data
                      /\ posts[k].payload.timestamp = hangups[i].timestamp

Has(steps, label) == \E n \in 1..Len(steps) : steps[n] = label

\* every occurrence of `later` in steps comes after an occurrence of `earlier`
Before(steps, earlier, later) ==
    \A n \in 1..Len(steps) :
        steps[n] = later => \E m \in 1..(n - 1) : steps[m] = earlier

\* C10: within an invocation, interruptions are disallowed, then
\* generate_reply is called, then the transcript and timestamp are
\* captured, then delete_room is awaited; the reply is scheduled and the
\* transcript captured before delete_room returns.
C10_StepOrder ==
    \A i \in 1..Len(hangups) :
        LET s == hangups[i].steps
        IN  /\ Has(s, "capture_transcript")
            /\ Has(s, "capture_timestamp")
            /\ Before(s, "disallow_interruptions", "generate_reply")
            /\ Before(s, "generate_reply", "capture_transcript")
            /\ Before(s, "generate_reply", "capture_timestamp")
            /\ Before(s, "capture_transcript", "delete_room")
            /\ Before(s, "capture_timestamp", "delete_room")
            /\ Before(s, "delete_room", "delete_room_returned")
            /\ hangups[i].state = "await_delete_room" =>
                  LET played == ReplyItem(hangups[i].message)
                  IN  /\ Has(s, "delete_room")
                      /\ \/ \E n \in 1..Len(speech_queue) :
                               speech_queue[n] = hangups[i].message
                         \/ \E n \in 1..Len(history) : history[n] = played

C10_TeardownReturned ==
    \E i \in 1..Len(hangups) :
        /\ hangups[i].state = "returned"
        /\ Has(hangups[i].steps, "delete_room_returned")

PostedBy(i) == { k \in 1..Len(posts) : posts[k].by = i }

\* C11: when delete_room raises, the failure does not leave hangup_call:
\* the invocation still returns and its transcript POST is still attempted.
C11_DeleteFailureIgnored ==
    \A i \in 1..Len(hangups) :
        Has(hangups[i].steps, "delete_room_raised") =>
            /\ hangups[i].state = "returned"
            /\ PostedBy(i) # {}

DebriefInFlight == \E i \in 1..Len(debriefs) : debriefs[i].state = "in_get"

\* C12: while a get_call_debrief query is in flight, a participant's
\* disconnect can be processed without waiting for the query to return.
C12_DisconnectProcessedDuringQuery ==
    (DebriefInFlight /\ DOMAIN remote_participants # {}) =>
        ENABLED (\E id \in Identities : ParticipantDisconnected(id))

PostFailed == post_log # "Transcript sent to n8n. Status: 200"

\* C13: a transcript POST, failed ones included, is the only POST of its
\* invocation (no retry), leaves a completed teardown in place, and is
\* followed by hangup_call returning "" with no error.
C13_FireAndForget ==
    /\ \A j, k \in 1..Len(posts) : posts[j].by = posts[k].by => j = k
    /\ \A k \in 1..Len(posts) :
          LET h == hangups[posts[k].by]
          IN  /\ h.state = "returned"
              /\ h.returned = ""
              /\ (Has(h.steps, "delete_room_returned") => room_deleted)

\* a POST failed after the room was torn down, and hangup_call returned
C13_FailedPostAfterTeardown ==
    /\ posts # << >>
    /\ PostFailed
    /\ post_log = "Failed to send transcript"
    /\ room_deleted
    /\ hangups[posts[Len(posts)].by].state = "returned"

\* the statement of C14 as written: every transcript POST follows a
\* delete_room call that was issued and has returned
C14_EveryPostFollowsTeardown ==
    \A i \in 1..Len(hangups) :
        LET s == hangups[i].steps
        IN  Has(s, "post") =>
               /\ Has(s, "delete_room_returned")
               /\ Before(s, "delete_room_returned", "post")

\* C14: whenever an invocation issues delete_room, its transcript POST is
\* attempted only after that call has returned, so no POST is outstanding
\* or made while the teardown is awaited; an invocation issues no
\* delete_room only when there is no job context.
C14_PostNeverDelaysTeardown ==
    \A i \in 1..Len(hangups) :
        LET s == hangups[i].steps
        IN  /\ Has(s, "delete_room") =>
                  /\ Before(s, "delete_room_returned", "post")
                  /\ (PostedBy(i) # {} => room_deleted)
            /\ ~Has(s, "delete_room") => job_context = "None"
            /\ hangups[i].state = "await_delete_room" => PostedBy(i) = {}
            /\ Has(s, "post") <=> PostedBy(i) # {}

\* a POST was made by an invocation whose delete_room had returned
C14_PostAfterTeardownReturned ==
    \E k \in 1..Len(posts) :
        /\ Has(hangups[posts[k].by].steps, "delete_room_returned")
        /\ room_deleted

\* C15: the timestamp delivered with a transcript is the time at which the
\* transcript was captured, whatever time has passed before the POST is sent.
C15_TimestampIsSnapshotTime ==
    \A k \in 1..Len(posts) :
        LET h == hangups[posts[k].by]
        IN  /\ posts[k].payload.timestamp = IsoFormatNow(h.captured_at)
            /\ h.captured_at <= posts[k].sent_at

\* time passed while delete_room was awaited, then the transcript was posted
C15_TimePassedBeforePost ==
    \E k \in 1..Len(posts) :
        /\ Has(hangups[posts[k].by].steps, "delete_room_returned")
        /\ hangups[posts[k].by].captured_at < posts[k].sent_at

\* C16: every get_call_debrief invocation disallows interruptions before it
\* issues the memory request, and no step of an invocation changes the
\* session's origin, its agent (persona and tools), the hangup_call
\* invocations, the room deletion or the transcript POSTs.
C16_DebriefOrderAndFrame ==
    [][ debriefs' # debriefs =>
          /\ UNCHANGED << is_phone, agent, hangups, delete_room_calls,
                          room_deleted, posts, post_log, speech_queue >>
          /\ \A i \in 1..Len(debriefs') :
                /\ Has(debriefs'[i].steps, "get")
                /\ Before(debriefs'[i].steps, "disallow_interruptions", "get")
      ]_vars

\* get_call_debrief was invoked again after an earlier invocation returned
C16_DebriefReturned ==
    /\ Len(debriefs) >= 2
    /\ debriefs[1].state = "returned"
    /\ debriefs[2].state = "returned"

\* C17: with no job context, no delete_room call is made, yet every
\* invocation schedules its closing utterance and makes exactly one POST
\* carrying its captured transcript and timestamp; and whenever hangup_call
\* returns, with or without a job context, it returns the empty string.
C17_NoContextStillDelivers ==
    /\ \A i \in 1..Len(hangups) :
          hangups[i].state = "returned" => hangups[i].returned = ""
    /\ job_context = "None" =>
          /\ delete_room_calls = << >>
          /\ ~room_deleted
          /\ \A i \in 1..Len(hangups) :
                LET h == hangups[i]
                    played == ReplyItem(h.message)
                IN  /\ h.state = "returned"
                    /\ ~Has(h.steps, "delete_room")
                    /\ Has(h.steps, "generate_reply")
                    /\ \/ \E n \in 1..Len(speech_queue) :
                             speech_queue[n] = h.message
                       \/ \E n \in 1..Len(history) : history[n] = played
                    /\ Cardinality(PostedBy(i)) = 1
                    /\ \A k \in PostedBy(i) :
                          /\ posts[k].payload.transcript = h.transcript_data
                          /\ posts[k].payload.timestamp = h.timestamp

\* hangup_call ran to its return with no job context
C17_NoContextHangup ==
    /\ job_context = "None"
    /\ Len(hangups) >= 1
    /\ hangups[1].state = "returned"
    /\ Len(posts) >= 1

\* C18: nothing is classified, started or greeted before the room
\* connection completes; the avatar is started exactly in web sessions and
\* before the agent session starts; one opening greeting is requested, only
\* once the agent session has started, and it is the phone greeting
\* exactly when the session is a phone session.
C18_StartupOrdered ==
    /\ pc = "connect" =>
          /\ ~is_phone
          /\ agent = NoAgent
          /\ ~avatar_started
          /\ greetings = << >>
    /\ pc = "classify" => (agent = NoAgent /\ ~avatar_started)
    /\ pc = "await_avatar" => (~is_phone /\ ~avatar_started)
    /\ avatar_started => (~is_phone /\ Classified)
    /\ pc \in { "await_session_start", "await_greeting", "done" } =>
          /\ avatar_started <=> ~is_phone
          /\ agent = Assistant(is_phone)
    /\ ~SessionStarted => greetings = << >>
    /\ SessionStarted =>
          /\ Len(greetings) = 1
          /\ is_phone <=> greetings[1] = PHONE_GREETING
          /\ ~is_phone <=> greetings[1] = WEB_GREETING

\* a web session started its avatar, then its agent session, and was greeted
C18_WebSessionGreeted ==
    /\ pc = "done"
    /\ ~is_phone
    /\ avatar_started
    /\ greetings = << WEB_GREETING >>

====
